---------------------------- MODULE Spec2Model ----------------------------
(***************************************************************************)
(* A model of the symbolic logic engine of pysemantics (src/logic.py):     *)
(* the expression data model, alpha-conversion, term- and expression-level *)
(* substitution, apply (beta-reduction), the template lookup word2lf and   *)
(* the finite-model evaluator Model.eval.                                  *)
(*                                                                         *)
(* Python values are modelled as records.  Entities carry their class in   *)
(* the field cls: the dataclasses Const and Var compare by class and name  *)
(* and, being dataclasses with eq and without frozen, are NOT hashable; a  *)
(* plain Python string (cls = "str") is hashable and is what a Model's     *)
(* set of entities and the keys of its tables can hold.  Wff-valued        *)
(* entities are given a constructor, and the bounded input sets below hold *)
(* none.  A raised exception is the record Raise(kind).                    *)
(***************************************************************************)
EXTENDS Naturals, Sequences, FiniteSets, TLC

VARIABLES
    entities,   \* Model.entities, as the sequence in which the set is iterated
    unaries,    \* Model.unaries : predicate name -> (entity -> bool)
    binaries,   \* Model.binaries: predicate name -> (entity -> (entity -> bool))
    v,          \* the target entity of a substitution
    w,          \* the replacement entity of a substitution
    expr,       \* the expression operated on (apply: the left operand)
    arg,        \* apply: the right operand; the lookup's <<cat, lemma>>
    pc,         \* which operation has acted on the inputs
    res         \* what the operation returned (an expression, a truth value, a Raise)

vars == <<entities, unaries, binaries, v, w, expr, arg, pc, res>>

---------------------------------------------------------------------------
(* The data model: src/logic.py, lines 19-106.                             *)

Const(n) == [cls |-> "Const", name |-> n]
Var(n) == [cls |-> "Var", name |-> n]
\* A plain Python str used where an Entity is expected (Pred('know', ...)).
PyStr(n) == [cls |-> "str", name |-> n]
Wff(e) == [cls |-> "Wff", expr |-> e]

Term(t) == [tag |-> "Term", term |-> t]
Pred(n, as) == [tag |-> "Pred", name |-> n, args |-> as]
Bind(n, x, e) == [tag |-> "Bind", name |-> n, var |-> x, expr |-> e]
\* (the operator's name is kept in the field op: a predicate's name is an entity)
Op(n, as) == [tag |-> "Op", op |-> n, args |-> as]

\* raise Exception(kind ...)
Raise(kind) == [tag |-> "Raise", exc |-> kind]
IsRaise(r) == r.tag = "Raise"

\* The first exception a left-to-right list comprehension meets, if any.
FirstRaise(rs) ==
    LET bad == {i \in DOMAIN rs : IsRaise(rs[i])}
    IN  rs[CHOOSE i \in bad : \A j \in bad : i <= j]

AnyRaise(rs) == \E i \in DOMAIN rs : IsRaise(rs[i])

\* str.islower() and str.isupper() on the names of the model's vocabulary:
\* true iff the name has a cased character and all of them are of that case.
LowerNames == {"x", "y", "z", "v", "p", "q", "r", "a", "b", "n"}
UpperNames == {"P", "Q"}
MixedNames == {"Px"}

islower(n) == n \in LowerNames
isupper(n) == n \in UpperNames

\* hash(e): only plain strings are hashable; Const, Var and Wff raise TypeError.
Hashable(e) == e.cls = "str"

---------------------------------------------------------------------------
(* Substitution and reduction: src/logic.py, lines 119-252.                *)

subst_term(tv, tw, term) == IF tv = term THEN tw ELSE term

RECURSIVE alpha_conversion(_, _, _)
\* A slip in the Binder case: the bound variable is overwritten without the
\* comparison with the target.
alpha_conversion_bindall(av, aw, e) ==
    CASE e.tag = "Bind" ->
            Bind(e.name, aw, alpha_conversion(av, aw, e.expr))
      [] e.tag = "Op" ->
            Op(e.op, [i \in DOMAIN e.args |-> alpha_conversion(av, aw, e.args[i])])
      [] e.tag = "Pred" ->
            Pred(e.name, [i \in DOMAIN e.args |-> subst_term(av, aw, e.args[i])])
      [] OTHER -> e

alpha_conversion(av, aw, e) ==
    CASE e.tag = "Bind" ->
            Bind(e.name, subst_term(av, aw, e.var), alpha_conversion(av, aw, e.expr))
      [] e.tag = "Op" ->
            Op(e.op, [i \in DOMAIN e.args |-> alpha_conversion(av, aw, e.args[i])])
      [] e.tag = "Pred" ->
            Pred(e.name, [i \in DOMAIN e.args |-> subst_term(av, aw, e.args[i])])
      [] OTHER -> e

BuildArityError == Raise("ArrError: Arity of predicate is greater than 2.")

build_predicate(name, arity) ==
    CASE arity = 1 ->
            Bind("\\", Var("x"), Pred(Const(name), <<Var("x")>>))
      [] arity = 2 ->
            Bind("\\", Var("y"),
                 Bind("\\", Var("x"), Pred(Const(name), <<Var("x"), Var("y")>>)))
      [] OTHER -> BuildArityError

RECURSIVE subst_terms(_, _, _)
subst_terms(sv, sw, e) ==
    CASE e.tag = "Op" ->
            Op(e.op, [i \in DOMAIN e.args |-> subst_terms(sv, sw, e.args[i])])
      [] e.tag = "Bind" ->
            IF e.var = sw
            THEN LET e1 == alpha_conversion(e.var, Var("v"), e.expr)
                     e2 == subst_terms(sv, sw, e1)
                     e3 == alpha_conversion(Var("v"), sv, e2)
                 IN  Bind(e.name, e.var, e3)
            ELSE Bind(e.name, subst_term(sv, sw, e.var), subst_terms(sv, sw, e.expr))
      [] e.tag = "Pred" ->
            Pred(e.name, [i \in DOMAIN e.args |-> subst_term(sv, sw, e.args[i])])
      [] e.tag = "Term" ->
            Term(subst_term(sv, sw, e.term))
      [] OTHER -> e

AppError == Raise("AppError: Invalid types for function application.")
SubstArityError == Raise("Invalid arity for predicate in expression substitution.")

IsLambdaOverVar(e) == e.tag = "Bind" /\ e.name = "\\" /\ e.var.cls = "Var"

RECURSIVE subst_expr(_, _, _)
RECURSIVE apply(_)

\* A slip in the first case: the islower() test on the bound name is dropped.
apply_nocase(exprs) ==
    LET l == exprs[1]
        r == exprs[2]
    IN  CASE l.tag = "Term" /\ IsLambdaOverVar(r) ->
                subst_terms(Var(r.var.name), l.term, r.expr)
          [] IsLambdaOverVar(l) /\ r.tag = "Term" ->
                IF islower(l.var.name)
                THEN subst_terms(Var(l.var.name), r.term, l.expr)
                ELSE AppError
          [] IsLambdaOverVar(l) /\ IsLambdaOverVar(r) ->
                IF \/ isupper(l.var.name) /\ islower(r.var.name)
                   \/ islower(l.var.name) /\ isupper(r.var.name)
                THEN subst_expr(Var(l.var.name), Bind("\\", Var(r.var.name), r.expr), l.expr)
                ELSE AppError
          [] OTHER -> AppError

\* apply((left, right)); the print('---') of its second case writes to stdout only.
apply(exprs) ==
    LET l == exprs[1]
        r == exprs[2]
    IN  CASE l.tag = "Term" /\ IsLambdaOverVar(r) ->
                IF islower(r.var.name)
                THEN subst_terms(Var(r.var.name), l.term, r.expr)
                ELSE AppError
          [] IsLambdaOverVar(l) /\ r.tag = "Term" ->
                IF islower(l.var.name)
                THEN subst_terms(Var(l.var.name), r.term, l.expr)
                ELSE AppError
          [] IsLambdaOverVar(l) /\ IsLambdaOverVar(r) ->
                IF \/ isupper(l.var.name) /\ islower(r.var.name)
                   \/ islower(l.var.name) /\ isupper(r.var.name)
                THEN subst_expr(Var(l.var.name), Bind("\\", Var(r.var.name), r.expr), l.expr)
                ELSE AppError
          [] OTHER -> AppError

subst_expr(xv, xw, e) ==
    CASE e.tag = "Bind" ->
            LET b == subst_expr(xv, xw, e.expr)
            IN  IF IsRaise(b) THEN b ELSE Bind(e.name, e.var, b)
      [] e.tag = "Pred" ->
            IF xv = e.name
            THEN CASE Len(e.args) = 1 -> apply(<<xw, Term(e.args[1])>>)
                   [] Len(e.args) = 2 ->
                        LET w_prime == apply(<<xw, Term(e.args[1])>>)
                        IN  IF IsRaise(w_prime) THEN w_prime
                            ELSE apply(<<w_prime, Term(e.args[2])>>)
                   [] OTHER -> SubstArityError
            ELSE e
      [] e.tag = "Op" ->
            LET rs == [i \in DOMAIN e.args |-> subst_expr(xv, xw, e.args[i])]
            IN  IF AnyRaise(rs) THEN FirstRaise(rs) ELSE Op(e.op, rs)
      [] e.tag = "Term" /\ e.term.cls = "Wff" ->
            LET b == subst_expr(xv, xw, e.term.expr)
            IN  IF IsRaise(b) THEN b ELSE Term(Wff(b))
      [] e.tag = "Term" ->
            IF xv = e.term THEN xw ELSE e
      [] OTHER -> e

---------------------------------------------------------------------------
(* Rendering: the __str__ methods, src/logic.py lines 28-106.              *)

\* Term.__str__ (and Wff.__str__) read an undefined global and raise NameError.
StrNameError == "<NameError>"
StrArityError == "<ArityError: Invalid arity for predicate.>"

IsStrError(s) == s \in {StrNameError, StrArityError}

EntityStr(t) == IF t.cls = "Wff" THEN StrNameError ELSE t.name

RECURSIVE JoinStr(_, _)
\* sep.join(parts), or the first error met while rendering the parts
JoinStr(parts, sep) ==
    IF Len(parts) = 0 THEN ""
    ELSE IF IsStrError(Head(parts)) THEN Head(parts)
    ELSE IF Len(parts) = 1 THEN Head(parts)
    ELSE LET rest == JoinStr(Tail(parts), sep)
         IN  IF IsStrError(rest) THEN rest ELSE Head(parts) \o sep \o rest

RECURSIVE ExprStr(_)
ExprStr(e) ==
    CASE e.tag = "Term" -> StrNameError
      [] e.tag = "Pred" ->
            IF IsStrError(EntityStr(e.name)) THEN StrNameError
            ELSE IF Len(e.args) > 0
            THEN LET inner == JoinStr([i \in DOMAIN e.args |-> EntityStr(e.args[i])], ", ")
                 IN  IF IsStrError(inner) THEN inner
                     ELSE e.name.name \o "(" \o inner \o ")"
            ELSE e.name.name
      [] e.tag = "Bind" ->
            LET body == ExprStr(e.expr)
            IN  IF IsStrError(EntityStr(e.var)) THEN StrNameError
                ELSE IF IsStrError(body) THEN body
                ELSE IF e.expr.tag = "Op"
                     THEN e.name \o e.var.name \o "[" \o body \o "]"
                     ELSE e.name \o e.var.name \o "." \o body
      [] e.tag = "Op" ->
            IF Len(e.args) = 1
            THEN LET a == ExprStr(e.args[1])
                 IN  IF IsStrError(a) THEN a ELSE e.op \o a
            ELSE IF Len(e.args) = 2
            THEN JoinStr([i \in DOMAIN e.args |-> ExprStr(e.args[i])], " " \o e.op \o " ")
            ELSE StrArityError
      [] OTHER -> "None"

---------------------------------------------------------------------------
(* The finite model and its evaluator: src/logic.py, lines 256-301.        *)

PyTrue == [tag |-> "True"]
PyFalse == [tag |-> "False"]
None == [tag |-> "None"]

\* Python truthiness of an evaluation result: True is truthy, False and None are not.
Truthy(r) == r = PyTrue

TypeError == Raise("TypeError: unhashable type")
NoLambdas == Raise("No lambdas allowed.")
BinderNotFound == Raise("EvalError: Binder not found.")
CannotEvaluate == Raise("EvalError: Cannot evaluate.")

EmptyDict == [k \in {} |-> None]

\* d.get(k, None) is truthy: the key is there and its dict is not empty
HasTable(d, k) == k \in DOMAIN d /\ DOMAIN d[k] # {}

\* i.get(k, None) on a table of bools
TableGet(i, k) == IF k \in DOMAIN i THEN i[k] ELSE None

RECURSIVE eval(_)
eval(e) ==
    CASE e.tag = "Op" /\ e.op = "&" /\ Len(e.args) = 2 ->
            LET a == eval(e.args[1])
            IN  IF IsRaise(a) \/ ~Truthy(a) THEN a ELSE eval(e.args[2])
      [] e.tag = "Op" /\ e.op = "->" /\ Len(e.args) = 2 ->
            LET a == eval(e.args[1])
            IN  IF IsRaise(a) THEN a
                ELSE IF ~Truthy(a) THEN PyTrue
                ELSE eval(e.args[2])
      [] e.tag = "Pred" /\ Len(e.args) = 1 ->
            IF ~Hashable(e.name) THEN TypeError
            ELSE IF HasTable(unaries, e.name.name)
            THEN IF ~Hashable(e.args[1]) THEN TypeError
                 ELSE TableGet(unaries[e.name.name], e.args[1].name)
            ELSE None
      [] e.tag = "Pred" /\ Len(e.args) = 2 ->
            IF ~Hashable(e.name) THEN TypeError
            ELSE IF HasTable(binaries, e.name.name)
            THEN IF ~Hashable(e.args[1]) THEN TypeError
                 ELSE IF HasTable(binaries[e.name.name], e.args[1].name)
                 THEN IF ~Hashable(e.args[2]) THEN TypeError
                      ELSE TableGet(binaries[e.name.name][e.args[1].name], e.args[2].name)
                 ELSE None
            ELSE None
      [] e.tag = "Bind" ->
            CASE e.name = "\\" -> NoLambdas
              [] e.name = "#" ->
                    LET rs == [i \in DOMAIN entities |->
                                  eval(subst_terms(e.var, entities[i], e.expr))]
                    IN  IF AnyRaise(rs) THEN FirstRaise(rs)
                        ELSE IF \E i \in DOMAIN rs : Truthy(rs[i]) THEN PyTrue
                        ELSE PyFalse
              [] e.name = "@" ->
                    LET rs == [i \in DOMAIN entities |->
                                  eval(subst_terms(e.var, entities[i], e.expr))]
                    IN  IF AnyRaise(rs) THEN FirstRaise(rs)
                        ELSE IF \A i \in DOMAIN rs : Truthy(rs[i]) THEN PyTrue
                        ELSE PyFalse
              [] OTHER -> BinderNotFound
      [] OTHER -> CannotEvaluate

---------------------------------------------------------------------------
(* Template lookup: src/logic.py, lines 305-346.                           *)

UnimplementedDeterminer == Raise("Current determiner is unimplemented.")

word2lf(cat, lemma) ==
    CASE cat = << <<"sel", "d">>, <<"sel", "d">>, <<"cat", "v">> >> ->
            Bind("\\", Var("y"),
                 Bind("\\", Var("x"), Pred(Const(lemma), <<Var("x"), Var("y")>>)))
      [] cat = << <<"sel", "j">>, <<"sel", "d">>, <<"cat", "v">> >> ->
            Bind("\\", Var("P"), Pred(Var("P"), <<>>))
      [] cat = << <<"sel", "d">>, <<"cat", "v">> >> ->
            Bind("\\", Var("x"), Pred(Const(lemma), <<Var("x"), Var("y")>>))
      [] Len(cat) >= 1 /\ cat[1] = <<"cat", "d">> ->
            Term(Const(lemma))
      [] Len(cat) >= 1 /\ cat[1] = <<"cat", "n">> ->
            Bind("\\", Var("x"), Pred(Const(lemma), <<Var("x")>>))
      [] cat = << <<"cat", "j">> >> ->
            Bind("\\", Var("x"), Pred(Const(lemma), <<Var("x")>>))
      [] cat = << <<"sel", "n">>, <<"cat", "j">> >> ->
            Bind("\\", Var("P"),
                 Bind("\\", Var("x"),
                      Op("&", <<Pred(Var("P"), <<Var("x")>>),
                                Pred(Const(lemma), <<Var("x")>>)>>)))
      [] Len(cat) >= 2 /\ cat[1] = <<"sel", "n">> /\ cat[2] = <<"cat", "d">> ->
            LET p == Pred(Const("P"), <<Var("x")>>)
                q == Pred(Const("Q"), <<Var("x")>>)
            IN  CASE lemma = "every" ->
                        Bind("\\", Var("P"),
                             Bind("\\", Var("Q"), Bind("@", Var("x"), Op("->", <<p, q>>))))
                  [] lemma \in {"a", "an"} ->
                        Bind("\\", Var("P"),
                             Bind("\\", Var("Q"), Bind("#", Var("x"), Op("&", <<p, q>>))))
                  [] OTHER -> UnimplementedDeterminer
      [] OTHER -> None

---------------------------------------------------------------------------
(* Bounds and the bounded input sets.                                      *)

\* Nesting depth of the expressions the operations are tried on.
MaxDepth == 2
\* Largest number of arguments of the predicates the operations are tried on.
MaxArity == 2

\* Model() as constructed: no entities, no tables.
EmptyModel ==
    /\ entities = <<>>
    /\ unaries = EmptyDict
    /\ binaries = EmptyDict

ModelUnchanged == UNCHANGED <<entities, unaries, binaries>>

ArgLists(ents) == UNION {[1..k -> ents] : k \in 0..MaxArity}

\* Inputs of alpha_conversion and subst_terms.
SubstEnts == {Var("x"), Var("v"), Const("x")}
SubstBound == {Var("x"), Var("y"), Var("v")}
SubstAtoms == {Pred(PyStr("p"), as) : as \in ArgLists(SubstEnts)}
SubstSibling == Pred(PyStr("q"), <<Var("x")>>)

RECURSIVE SubstExprs(_)
SubstExprs(d) ==
    IF d = 0 THEN SubstAtoms
    ELSE LET S == SubstExprs(d - 1)
         IN  S \cup {Bind(b, x, e) : b \in {"\\", "@"}, x \in SubstBound, e \in S}
               \cup {Op("&", <<SubstSibling, e>>) : e \in S}
               \cup {Op("~", <<e>>) : e \in S}

SubstInputs == SubstExprs(MaxDepth)
AlphaTargets == {Var("x"), Var("v")}
AlphaReplacements == {Var("z"), Var("y")}
SubstTargets == {Var("x"), Var("v")}
SubstReplacements == {Var("y"), Var("v"), Var("z"), Const("a"), PyStr("a")}

---------------------------------------------------------------------------
(* Alpha-conversion there and back.                                        *)

InitAlpha ==
    /\ EmptyModel
    /\ v \in AlphaTargets
    /\ w \in AlphaReplacements
    /\ v # w
    /\ expr \in SubstInputs
    /\ arg = None
    /\ pc = "idle"
    /\ res = None

\* res := alpha_conversion(v, w, expr)
AlphaConvert ==
    /\ pc = "idle"
    /\ res' = alpha_conversion(v, w, expr)
    /\ pc' = "alpha"
    /\ UNCHANGED <<v, w, expr, arg>>
    /\ ModelUnchanged

\* res := alpha_conversion(w, v, res)
AlphaBack ==
    /\ pc = "alpha"
    /\ res' = alpha_conversion(w, v, res)
    /\ pc' = "back"
    /\ UNCHANGED <<v, w, expr, arg>>
    /\ ModelUnchanged

NextAlpha == AlphaConvert \/ AlphaBack

SpecAlpha == InitAlpha /\ [][NextAlpha]_vars

\* x occurs in e: as a bound variable, a predicate argument, a predicate head
\* or a wrapped term.
RECURSIVE Occurs(_, _)
Occurs(x, e) ==
    CASE e.tag = "Bind" -> e.var = x \/ Occurs(x, e.expr)
      [] e.tag = "Op" -> \E i \in DOMAIN e.args : Occurs(x, e.args[i])
      [] e.tag = "Pred" -> e.name = x \/ \E i \in DOMAIN e.args : e.args[i] = x
      [] e.tag = "Term" -> e.term = x
      [] OTHER -> FALSE

\* C10: renaming a variable V that occurs in E to a variable W that does not
\* occur in E, and then W back to V, returns E itself, with the same rendering.
C10_AlphaRoundTrip ==
    (pc = "back" /\ Occurs(v, expr) /\ ~Occurs(w, expr))
        => (res = expr /\ ExprStr(res) = ExprStr(expr))

\* A round trip through a renamed binder over an operator: the intermediate
\* expression differs from E in its bound variable and in its body.
C10_Witness ==
    /\ pc = "back"
    /\ Occurs(v, expr) /\ ~Occurs(w, expr)
    /\ expr.tag = "Bind" /\ expr.var = v /\ expr.expr.tag = "Op"
    /\ alpha_conversion(v, w, expr).var = w
    /\ alpha_conversion(v, w, expr).expr # expr.expr
    /\ res = expr

---------------------------------------------------------------------------
(* Capture-avoiding substitution.                                          *)

InitSubst ==
    /\ EmptyModel
    /\ v \in SubstTargets
    /\ w \in SubstReplacements
    /\ v # w
    /\ expr \in SubstInputs
    /\ arg = None
    /\ pc = "idle"
    /\ res = None

\* res := subst_terms(v, w, expr)
SubstTerms ==
    /\ pc = "idle"
    /\ res' = subst_terms(v, w, expr)
    /\ pc' = "subst"
    /\ UNCHANGED <<v, w, expr, arg>>
    /\ ModelUnchanged

NextSubst == SubstTerms

SpecSubst == InitSubst /\ [][NextSubst]_vars

\* The entity occurrences of an expression, left to right, each with the bound
\* variables of the binders around it (outermost first).
RECURSIVE Occs(_, _)
RECURSIVE OccsFrom(_, _, _)
OccsFrom(as, scope, i) ==
    IF i > Len(as) THEN <<>>
    ELSE Occs(as[i], scope) \o OccsFrom(as, scope, i + 1)

Occs(e, scope) ==
    CASE e.tag = "Bind" -> Occs(e.expr, Append(scope, e.var))
      [] e.tag = "Op" -> OccsFrom(e.args, scope, 1)
      [] e.tag = "Pred" -> [i \in DOMAIN e.args |-> [ent |-> e.args[i], scope |-> scope]]
      [] e.tag = "Term" -> <<[ent |-> e.term, scope |-> scope]>>
      [] OTHER -> <<>>

FreeOcc(o) == \A i \in DOMAIN o.scope : o.scope[i] # o.ent

\* bound by the outermost binder: it names the occurrence and no binder
\* further in does
BoundByOuter(o) ==
    /\ Len(o.scope) >= 1
    /\ o.scope[1] = o.ent
    /\ \A i \in 2..Len(o.scope) : o.scope[i] # o.ent

\* C1: when subst_terms(v, w, E) descends into a Binder E whose bound variable
\* is w, every w put in for a free v is free in the returned Binder, every
\* occurrence the binder bound is still bound by it, and neither the scratch
\* name 'v' nor an extra occurrence of the target is left in the body.
C1_CaptureAvoiding ==
    (pc = "subst" /\ expr.tag = "Bind" /\ expr.var = w)
        => LET before == Occs(expr, <<>>)
               after == Occs(res, <<>>)
           IN  /\ res.tag = "Bind"
               /\ Len(after) = Len(before)
               /\ \A i \in DOMAIN before :
                    /\ (before[i].ent = v /\ FreeOcc(before[i]))
                          => (after[i].ent = w /\ FreeOcc(after[i]))
                    /\ BoundByOuter(before[i]) => BoundByOuter(after[i])
                    /\ (after[i].ent = Var("v") /\ before[i].ent # Var("v"))
                          => w = Var("v")
                    /\ after[i].ent = v => before[i].ent = v

---------------------------------------------------------------------------
(* Application of one expression to another.                               *)

ApplyArgEnts == {Var("x"), Const("a")}
ApplyAtoms == {Pred(n, as) : n \in {Const("p"), Var("P")}, as \in ArgLists(ApplyArgEnts)}
ApplySibling == Pred(Const("q"), <<Var("x")>>)
ApplyBound == {Var("x"), Var("P"), Var("Px"), Const("x")}

RECURSIVE ApplyExprs(_)
ApplyExprs(d) ==
    IF d = 0 THEN ApplyAtoms
    ELSE LET S == ApplyExprs(d - 1)
         IN  S \cup {Bind("\\", x, e) : x \in ApplyBound, e \in S}
               \cup {Bind("@", Var("x"), e) : e \in S}
               \cup {Op("&", <<ApplySibling, e>>) : e \in S}

ApplyTerms == {Term(Const("a")), Term(Var("y")), Term(PyStr("a"))}

ApplyOperands == ApplyTerms \cup ApplyExprs(MaxDepth)

\* One operand of every shape, to pair with each of ApplyOperands on either side.
ApplyPartners ==
    {Term(Const("a")),
     Term(Var("y")),
     build_predicate("n", 1),
     build_predicate("r", 2),
     Bind("\\", Var("P"), Pred(Var("P"), <<Const("a")>>)),
     Bind("\\", Var("Q"), Bind("@", Var("x"),
            Op("->", <<Pred(Var("P"), <<Var("x")>>), Pred(Var("Q"), <<Var("x")>>)>>))),
     Bind("\\", Var("Px"), Pred(Const("n"), <<Var("x")>>)),
     Bind("\\", Const("x"), Pred(Const("n"), <<Var("x")>>)),
     Bind("@", Var("x"), Pred(Const("n"), <<Var("x")>>)),
     Pred(Const("n"), <<Const("a")>>),
     Op("&", <<Pred(Const("n"), <<Const("a")>>), Pred(Const("q"), <<Const("a")>>)>>)}

InitApply ==
    /\ EmptyModel
    /\ v = None
    /\ w = None
    /\ \E a \in ApplyOperands, b \in ApplyPartners :
          \/ expr = a /\ arg = b
          \/ expr = b /\ arg = a
    /\ pc = "idle"
    /\ res = None

\* res := apply((expr, arg))
Apply ==
    /\ pc = "idle"
    /\ res' = apply(<<expr, arg>>)
    /\ pc' = "applied"
    /\ UNCHANGED <<v, w, expr, arg>>
    /\ ModelUnchanged

NextApply == Apply

SpecApply == InitApply /\ [][NextApply]_vars

LowerLambda(e) ==
    e.tag = "Bind" /\ e.name = "\\" /\ e.var.cls = "Var" /\ e.var.name \in LowerNames
UpperLambda(e) ==
    e.tag = "Bind" /\ e.name = "\\" /\ e.var.cls = "Var" /\ e.var.name \in UpperNames

\* The operand pairs apply has a reduction rule for.
HasRule(l, r) ==
    \/ l.tag = "Term" /\ LowerLambda(r)
    \/ LowerLambda(l) /\ r.tag = "Term"
    \/ LowerLambda(l) /\ UpperLambda(r)
    \/ UpperLambda(l) /\ LowerLambda(r)

\* C2: for F bound to an uppercase and A bound to a lowercase variable, apply
\* returns the same expression for (F, A) and (A, F), and in both orders it is
\* A substituted for F's bound name as a predicate head in F's body.
C2_OrderInsensitive ==
    (pc = "applied" /\ \/ UpperLambda(expr) /\ LowerLambda(arg)
                       \/ LowerLambda(expr) /\ UpperLambda(arg))
        => LET F == IF UpperLambda(expr) THEN expr ELSE arg
               A == IF UpperLambda(expr) THEN arg ELSE expr
           IN  /\ res = apply(<<arg, expr>>)
               /\ res = subst_expr(F.var, A, F.expr)

\* C4: apply fails with the application-type error on every operand pair it
\* has no reduction rule for, and so returns an expression only for a pair it
\* has a rule for.
C4_ApplyRejects ==
    (pc = "applied" /\ ~HasRule(expr, arg)) => res = AppError

\* A rejected pair: a Term with a lambda bound to the uppercase variable P,
\* whose body has P as its predicate head.
C4_Witness ==
    /\ pc = "applied"
    /\ expr.tag = "Term"
    /\ arg.tag = "Bind" /\ arg.name = "\\" /\ arg.var = Var("P")
    /\ arg.expr.tag = "Pred" /\ arg.expr.name = Var("P")
    /\ res = AppError

\* C9: applying \x.\x.p(x) to Term(y), y another variable, returns the inner
\* binder \x.p(x) unaltered.
C9_ShadowingRespected ==
    (/\ pc = "applied"
     /\ LowerLambda(expr) /\ LowerLambda(expr.expr)
     /\ expr.expr.var = expr.var
     /\ expr.expr.expr.tag = "Pred" /\ expr.expr.expr.args = <<expr.var>>
     /\ arg.tag = "Term" /\ arg.term.cls = "Var" /\ arg.term # expr.var)
        => res = expr.expr

---------------------------------------------------------------------------
(* Evaluation against a populated Model.                                   *)

EntNames == {"a", "b"}

\* The iteration orders of the sets of entities over EntNames.
EntityOrders ==
    {<<>>} \cup {<<PyStr(a)>> : a \in EntNames}
           \cup UNION {{<<PyStr(a), PyStr(b)>> : b \in EntNames \ {a}} : a \in EntNames}

UnaryTables == UNION {[S -> {PyTrue, PyFalse}] : S \in SUBSET EntNames}

ModelUnaries ==
    LET QTables == {[k \in EntNames |-> PyTrue],
                    [k \in EntNames |-> IF k = "a" THEN PyFalse ELSE PyTrue]}
    IN  {EmptyDict}
          \cup {[k \in {"p"} |-> t] : t \in UnaryTables}
          \cup {[k \in {"q"} |-> t] : t \in QTables}
          \cup {[k \in {"p", "q"} |-> IF k = "p" THEN t ELSE u] :
                   t \in UnaryTables, u \in QTables}

ModelBinaries ==
    {EmptyDict,
     [k \in {"r"} |-> EmptyDict],
     [k \in {"r"} |-> [a \in {"a"} |-> [b \in {"b"} |-> PyTrue]]],
     [k \in {"r"} |-> [a \in {"a"} |-> [b \in {"b"} |-> PyFalse]]]}

EvalVar == Var("x")
Lambda == Bind("\\", EvalVar, Pred(PyStr("p"), <<EvalVar>>))
Negation == Op("~", <<Pred(PyStr("p"), <<PyStr("a")>>)>>)

\* Leaves that mention the quantified variable, and all leaves.
EvalOpenLeaves ==
    {Pred(PyStr("p"), <<EvalVar>>),
     Pred(PyStr("q"), <<EvalVar>>),
     Pred(PyStr("r"), <<PyStr("a"), EvalVar>>),
     Pred(Const("p"), <<EvalVar>>),
     Lambda}

EvalLeaves ==
    EvalOpenLeaves
      \cup {Pred(PyStr("p"), <<PyStr("a")>>), Pred(PyStr("q"), <<PyStr("b")>>), Negation}

EvalOps(S) == {Op(o, <<f, g>>) : o \in {"&", "->"}, f \in S, g \in S}

EvalFormulas ==
    EvalLeaves
      \cup EvalOps(EvalLeaves)
      \cup {Bind(b, EvalVar, f) : b \in {"#", "@"}, f \in EvalLeaves \cup EvalOps(EvalOpenLeaves)}

InitEval ==
    /\ entities \in EntityOrders
    /\ unaries \in ModelUnaries
    /\ binaries \in ModelBinaries
    /\ v = None
    /\ w = None
    /\ expr \in EvalFormulas
    /\ arg = None
    /\ pc = "idle"
    /\ res = None

\* res := Model.eval(expr)
Eval ==
    /\ pc = "idle"
    /\ res' = eval(expr)
    /\ pc' = "eval"
    /\ UNCHANGED <<v, w, expr, arg>>
    /\ ModelUnchanged

NextEval == Eval

SpecEval == InitEval /\ [][NextEval]_vars

TruthValues == {PyTrue, PyFalse, None}

\* C5: an implication with an undefined operand evaluates to undefined; with
\* both operands defined it is (not A) or B.
C5_ImplicationUndefined ==
    (pc = "eval" /\ expr.tag = "Op" /\ expr.op = "->"
        /\ eval(expr.args[1]) \in TruthValues /\ eval(expr.args[2]) \in TruthValues)
        => LET a == eval(expr.args[1])
               b == eval(expr.args[2])
           IN  IF a = None \/ b = None THEN res = None
               ELSE res = (IF a = PyFalse \/ b = PyTrue THEN PyTrue ELSE PyFalse)

\* The values of a quantifier's body, one per entity of the domain.
BodyValues(e) ==
    [i \in DOMAIN entities |-> eval(subst_terms(e.var, entities[i], e.expr))]

\* C6: a universal Binder evaluates to true iff no entity of the domain makes
\* its body false (true and undefined both count as not falsifying).
C6_UniversalNotFalse ==
    (pc = "eval" /\ expr.tag = "Bind" /\ expr.name = "@"
        /\ \A i \in DOMAIN entities : BodyValues(expr)[i] \in TruthValues)
        => (res = PyTrue <=> \A i \in DOMAIN entities : BodyValues(expr)[i] # PyFalse)

\* C7: over a non-empty domain #x[r(a, x)] is true when some entity of the
\* domain is related to a in r's table, and undefined, not false, when r's
\* binary table is empty or absent.
C7_ExistentialUndefined ==
    (pc = "eval" /\ entities # <<>>
        /\ expr = Bind("#", EvalVar, Pred(PyStr("r"), <<PyStr("a"), EvalVar>>)))
        => /\ (\E i \in DOMAIN entities :
                  /\ "r" \in DOMAIN binaries
                  /\ "a" \in DOMAIN binaries["r"]
                  /\ entities[i].name \in DOMAIN binaries["r"]["a"]
                  /\ binaries["r"]["a"][entities[i].name] = PyTrue)
                => res = PyTrue
           /\ ("r" \notin DOMAIN binaries \/ DOMAIN binaries["r"] = {})
                => res = None

\* e holds a lambda Binder or a shape eval has no rule for.
RECURSIVE Unsaturated(_)
Unsaturated(e) ==
    CASE e.tag = "Bind" /\ e.name \in {"#", "@"} -> Unsaturated(e.expr)
      [] e.tag = "Op" /\ e.op \in {"&", "->"} /\ Len(e.args) = 2 ->
            Unsaturated(e.args[1]) \/ Unsaturated(e.args[2])
      [] e.tag = "Pred" /\ Len(e.args) \in {1, 2} -> FALSE
      [] OTHER -> TRUE

\* C8: eval of an expression that holds a lambda Binder or a shape without an
\* evaluation rule anywhere inside it raises, and returns no truth value,
\* whatever the Model and the sibling operands.
C8_UnsaturatedRaises ==
    (pc = "eval" /\ Unsaturated(expr)) => res \notin TruthValues

---------------------------------------------------------------------------
(* The derivation: a template lookup, then applications in the order the   *)
(* parser's derivation tree gives, then evaluation of the formula left.    *)

\* How many applications a derivation makes.
MaxMerges == 2

DetCat == << <<"sel", "n">>, <<"cat", "d">> >>

Cats ==
    {<< <<"sel", "d">>, <<"sel", "d">>, <<"cat", "v">> >>,
     << <<"sel", "j">>, <<"sel", "d">>, <<"cat", "v">> >>,
     << <<"sel", "d">>, <<"cat", "v">> >>,
     << <<"cat", "d">> >>,
     << <<"cat", "d">>, <<"neg", "case">> >>,
     << <<"cat", "n">> >>,
     << <<"cat", "j">> >>,
     << <<"sel", "n">>, <<"cat", "j">> >>,
     DetCat,
     << <<"sel", "n">>, <<"cat", "d">>, <<"neg", "case">> >>,
     << <<"sel", "v">>, <<"cat", "t">> >>}

Lemmas == {"every", "a", "an", "the", "dog", "bark"}
OperandLemmas == {"dog", "bark"}

DeriveUnaries == {EmptyDict, [k \in {"dog"} |-> [a \in {"a"} |-> PyTrue]]}

IsExpr(e) == e.tag \in {"Term", "Pred", "Bind", "Op"}

Init ==
    /\ entities \in {<<>>, <<PyStr("a")>>}
    /\ unaries \in DeriveUnaries
    /\ binaries = EmptyDict
    /\ v = None
    /\ w = None
    /\ expr = None
    /\ arg = <<>>
    /\ pc = "start"
    /\ res = None

\* expr := word2lf(cat, lemma)
Lookup ==
    /\ pc = "start"
    /\ \E cat \in Cats, lemma \in Lemmas :
          /\ expr' = word2lf(cat, lemma)
          /\ arg' = <<cat, lemma>>
    /\ pc' = IF IsExpr(expr') THEN "lf" ELSE "failed"
    /\ UNCHANGED <<v, w, res>>
    /\ ModelUnchanged

\* expr := apply((expr, other)) or apply((other, expr)), other a looked-up sister
Merge ==
    /\ pc = "lf"
    /\ Len(arg) < 2 + MaxMerges
    /\ \E cat \in Cats, lemma \in OperandLemmas, side \in {"fn", "arg"} :
          LET other == word2lf(cat, lemma)
          IN  /\ IsExpr(other)
              /\ expr' = IF side = "fn" THEN apply(<<expr, other>>)
                         ELSE apply(<<other, expr>>)
              /\ arg' = Append(arg, <<side, other>>)
    /\ pc' = IF IsExpr(expr') THEN "lf" ELSE "failed"
    /\ UNCHANGED <<v, w, res>>
    /\ ModelUnchanged

\* res := Model.eval(expr)
EvalFormula ==
    /\ pc = "lf"
    /\ res' = eval(expr)
    /\ pc' = "eval"
    /\ UNCHANGED <<v, w, expr, arg>>
    /\ ModelUnchanged

Next == Lookup \/ Merge \/ EvalFormula

Spec == Init /\ [][Next]_vars

\* \x.n(x), as the noun and adjective templates build it
OnePlace(e) ==
    /\ LowerLambda(e) /\ e.var = Var("x")
    /\ e.expr.tag = "Pred" /\ e.expr.args = <<Var("x")>>
    /\ e.expr.name.cls = "Const"

RECURSIVE HasLambda(_)
HasLambda(e) ==
    CASE e.tag = "Bind" -> e.name = "\\" \/ HasLambda(e.expr)
      [] e.tag = "Op" -> \E i \in DOMAIN e.args : HasLambda(e.args[i])
      [] OTHER -> FALSE

\* C3: the determiner template for 'every' (resp. 'a', 'an') applied to
\* N = \x.n(x) and then to V = \x.v(x) is @x[n(x) -> v(x)] (resp.
\* #x[n(x) & v(x)]), holds no lambda Binder, and eval accepts it.
C3_ClosedFormula ==
    (/\ pc \in {"lf", "failed", "eval"}
     /\ Len(arg) = 4
     /\ arg[1] = DetCat /\ arg[2] \in {"every", "a", "an"}
     /\ arg[3][1] = "fn" /\ OnePlace(arg[3][2])
     /\ arg[4][1] = "fn" /\ OnePlace(arg[4][2]))
        => LET n == arg[3][2].expr
               vb == arg[4][2].expr
           IN  /\ expr = IF arg[2] = "every"
                         THEN Bind("@", Var("x"), Op("->", <<n, vb>>))
                         ELSE Bind("#", Var("x"), Op("&", <<n, vb>>))
               /\ ~HasLambda(expr)
               /\ pc = "eval" => ~IsRaise(res)

===========================================================================
